---- MODULE Spec2Model ----
(***************************************************************************)
(* Model of static/js/main.js: the number-list validator                   *)
(* validateNumberInput and the notification timers of showNotification.    *)
(* JavaScript strings are sequences of one-character strings.              *)
(***************************************************************************)
EXTENDS Integers, Sequences, FiniteSets, TLC

VARIABLES input, result, body, transform, timers, age, log, threw, nextId

vars == <<input, result, body, transform, timers, age, log, threw, nextId>>

(* ---- bounds of the model ---- *)
MaxLen == 5
MaxTokens == 27
MaxNotifications == 3

(* ---- program constants ---- *)
MaxNumbers == 25
MinValue == 1
MaxValue == 1000
SlideInDelay == 100
SlideOutDelay == 3000
RemoveDelay == 300

(* ---- characters ---- *)
\* the characters a caller types into the text handed to validateNumberInput
Alphabet == {"0", "1", "-", "a", "x", ",", " ", "\t", "\n"}

\* what String.prototype.trim and the regular expression \s treat as white space
WhiteSpace == {" ", "\t", "\n", "\r", "\f"}

DecDigits == <<"0", "1", "2", "3", "4", "5", "6", "7", "8", "9">>

HexDigits == DecDigits \o <<"a", "b", "c", "d", "e", "f">>

HexUpper == <<"A", "B", "C", "D", "E", "F">>

IsDigit(c, radix) ==
    \/ \E i \in 1..radix : HexDigits[i] = c
    \/ radix = 16 /\ \E i \in 1..6 : HexUpper[i] = c

DigitVal(c) ==
    IF \E i \in 1..16 : HexDigits[i] = c
    THEN (CHOOSE i \in 1..16 : HexDigits[i] = c) - 1
    ELSE (CHOOSE i \in 1..6 : HexUpper[i] = c) + 9

(* ---- message texts ---- *)
EmptyMessage == <<"E", "m", "p", "t", "y", " ", "i", "n", "p", "u", "t", " ", "-", " ", "w", "i", "l", "l", " ", "u", "s", "e", " ", "r", "a", "n", "d", "o", "m", " ", "n", "u", "m", "b", "e", "r", "s">>

Quote == <<"\"">>

NotANumberSuffix == <<"\"", " ", "i", "s", " ", "n", "o", "t", " ", "a", " ", "n", "u", "m", "b", "e", "r">>

OutOfRangeSuffix == <<" ", "i", "s", " ", "o", "u", "t", " ", "o", "f", " ", "r", "a", "n", "g", "e", " ", "(", "1", "-", "1", "0", "0", "0", ")">>

TooManyPrefix == <<"T", "o", "o", " ", "m", "a", "n", "y", " ", "n", "u", "m", "b", "e", "r", "s", ".", " ", "U", "s", "i", "n", "g", " ", "f", "i", "r", "s", "t", " ", "2", "5", ":", " ">>

ValidPrefix == <<"V", "a", "l", "i", "d", " ", "n", "u", "m", "b", "e", "r", "s", ":", " ">>

CommaSpace == <<",", " ">>

(* ---- String and Array primitives ---- *)
RECURSIVE StripSpaces(_)
\* a trim that knows the space character only
StripSpaces(s) ==
    IF s # <<>> /\ Head(s) = " " THEN StripSpaces(Tail(s))
    ELSE IF s # <<>> /\ s[Len(s)] = " " THEN StripSpaces(SubSeq(s, 1, Len(s) - 1))
    ELSE s

RECURSIVE TrimStart(_)
\* the string without its leading white space
TrimStart(s) ==
    IF s # <<>> /\ Head(s) \in WhiteSpace THEN TrimStart(Tail(s)) ELSE s

RECURSIVE TrimEnd(_)
\* the string without its trailing white space
TrimEnd(s) ==
    IF s # <<>> /\ s[Len(s)] \in WhiteSpace
    THEN TrimEnd(SubSeq(s, 1, Len(s) - 1))
    ELSE s

\* String.prototype.trim
Trim(s) == TrimEnd(TrimStart(s))

\* a replace that leaves the commas in place
KeepCommas(s) == s

\* replace(/,/g, ' ')
ReplaceCommas(s) == [i \in 1..Len(s) |-> IF s[i] = "," THEN " " ELSE s[i]]

RECURSIVE SplitFrom(_, _, _)
\* split(/\s+/) of the rest of s from position i, cur being the piece begun
SplitFrom(s, i, cur) ==
    IF i > Len(s) THEN <<cur>>
    ELSE IF s[i] \in WhiteSpace
         THEN IF i > 1 /\ s[i - 1] \in WhiteSpace
              THEN SplitFrom(s, i + 1, cur)
              ELSE <<cur>> \o SplitFrom(s, i + 1, <<>>)
         ELSE SplitFrom(s, i + 1, Append(cur, s[i]))

\* split(/\s+/): the pieces between maximal runs of white space
SplitWhiteSpace(s) == SplitFrom(s, 1, <<>>)

\* filter(n => n): the empty string is the only falsy string
FilterNonEmpty(pieces) == SelectSeq(pieces, LAMBDA p : p # <<>>)

\* the tokens of a trimmed input
Tokenize(trimmed) == FilterNonEmpty(SplitWhiteSpace(ReplaceCommas(trimmed)))

RECURSIVE DigitsOf(_)
\* the decimal digits of a natural number
DigitsOf(n) ==
    IF n < 10 THEN <<DecDigits[n + 1]>>
    ELSE DigitsOf(n \div 10) \o <<DecDigits[(n % 10) + 1]>>

\* Number to String, as a template literal and Array.prototype.join convert it
NumToStr(n) == IF n < 0 THEN <<"-">> \o DigitsOf(-n) ELSE DigitsOf(n)

RECURSIVE Join(_, _)
\* Array.prototype.join of strings
Join(strs, sep) ==
    IF strs = <<>> THEN <<>>
    ELSE IF Len(strs) = 1 THEN strs[1]
    ELSE strs[1] \o sep \o Join(Tail(strs), sep)

\* Array.prototype.join of numbers
JoinNumbers(nums, sep) == Join([i \in 1..Len(nums) |-> NumToStr(nums[i])], sep)

(* ---- parseInt(string) with no radix ---- *)
RECURSIVE DigitPrefix(_, _)
\* the longest prefix of s made of digits of the radix
DigitPrefix(s, radix) ==
    IF s # <<>> /\ IsDigit(Head(s), radix)
    THEN <<Head(s)>> \o DigitPrefix(Tail(s), radix)
    ELSE <<>>

RECURSIVE ToInteger(_, _, _)
\* the value of a digit string in the radix, acc being the value read so far
ToInteger(z, radix, acc) ==
    IF z = <<>> THEN acc
    ELSE ToInteger(Tail(z), radix, acc * radix + DigitVal(Head(z)))

NaN == [nan |-> TRUE, val |-> 0]

parseInt(str) ==
    LET s0 == TrimStart(str)
        sign == IF s0 # <<>> /\ Head(s0) = "-" THEN -1 ELSE 1
        s1 == IF s0 # <<>> /\ Head(s0) \in {"+", "-"} THEN Tail(s0) ELSE s0
        hex == Len(s1) >= 2 /\ s1[1] = "0" /\ s1[2] \in {"x", "X"}
        radix == IF hex THEN 16 ELSE 10
        s2 == IF hex THEN SubSeq(s1, 3, Len(s1)) ELSE s1
        z == DigitPrefix(s2, radix)
    IN  IF z = <<>> THEN NaN
        ELSE [nan |-> FALSE, val |-> sign * ToInteger(z, radix, 0)]

(* ---- validateNumberInput ---- *)
Null == [isNull |-> TRUE, list |-> <<>>]

Array(l) == [isNull |-> FALSE, list |-> l]

NotANumberError(numStr) == Quote \o numStr \o NotANumberSuffix

OutOfRangeError(num) == NumToStr(num) \o OutOfRangeSuffix

\* a range test with the upper bound excluded
OutOfRangeExclusive(num) == num < MinValue \/ num >= MaxValue

\* num < 1 || num > 1000
OutOfRange(num) == num < MinValue \/ num > MaxValue

\* one iteration of the for loop over the tokens
LoopBody(acc, numStr) ==
    LET num == parseInt(numStr)
    IN  IF num.nan
        THEN [acc EXCEPT !.errors = Append(@, NotANumberError(numStr))]
        ELSE IF OutOfRange(num.val)
        THEN [acc EXCEPT !.errors = Append(@, OutOfRangeError(num.val))]
        ELSE [acc EXCEPT !.validNumbers = Append(@, num.val)]

RECURSIVE Loop(_, _)
\* the for loop: acc after every token of numbers, in order
Loop(acc, numbers) ==
    IF numbers = <<>> THEN acc
    ELSE Loop(LoopBody(acc, Head(numbers)), Tail(numbers))

\* validNumbers.length > 25
TooMany(validNumbers) == Len(validNumbers) > MaxNumbers

\* a slice that keeps the last 25 numbers
TruncateLast(validNumbers) ==
    SubSeq(validNumbers, IF Len(validNumbers) > MaxNumbers THEN Len(validNumbers) - MaxNumbers + 1 ELSE 1, Len(validNumbers))

\* a slice that keeps one number too many
TruncateOneMore(validNumbers) ==
    SubSeq(validNumbers, 1, IF Len(validNumbers) < MaxNumbers + 1 THEN Len(validNumbers) ELSE MaxNumbers + 1)

\* validNumbers.slice(0, 25)
Truncate(validNumbers) ==
    SubSeq(validNumbers, 1, IF Len(validNumbers) < MaxNumbers THEN Len(validNumbers) ELSE MaxNumbers)

validateNumberInput(in) ==
    LET trimmed == Trim(in)
    IN  IF trimmed = <<>>
        THEN [valid |-> TRUE, numbers |-> Null, message |-> EmptyMessage]
        ELSE LET numbers == Tokenize(trimmed)
                 acc == Loop([validNumbers |-> <<>>, errors |-> <<>>], numbers)
             IN  IF Len(acc.errors) > 0
                 THEN [valid |-> FALSE, error |-> Join(acc.errors, CommaSpace)]
                 ELSE IF TooMany(acc.validNumbers)
                 THEN [valid |-> TRUE,
                       numbers |-> Array(Truncate(acc.validNumbers)),
                       message |-> TooManyPrefix \o JoinNumbers(Truncate(acc.validNumbers), CommaSpace)]
                 ELSE [valid |-> TRUE,
                       numbers |-> Array(acc.validNumbers),
                       message |-> ValidPrefix \o JoinNumbers(acc.validNumbers, CommaSpace)]

(* ---- the caller: a text is composed, validated, and cleared ---- *)
\* result before validateNumberInput has returned
NoResult == [pending |-> TRUE]

Returned == "valid" \in DOMAIN result

\* the separators of the numeric-list text format
Separators == WhiteSpace \cup {","}

\* length of the run of non-separator characters s begins with
RunLength(s) ==
    CHOOSE k \in 1..Len(s) :
        /\ \A j \in 1..k : s[j] \notin Separators
        /\ k = Len(s) \/ s[k + 1] \in Separators

RECURSIVE TokensOf(_)
\* the maximal runs of non-separator characters of a text, in order
TokensOf(s) ==
    IF s = <<>> THEN <<>>
    ELSE IF Head(s) \in Separators THEN TokensOf(Tail(s))
    ELSE <<SubSeq(s, 1, RunLength(s))>> \o TokensOf(SubSeq(s, RunLength(s) + 1, Len(s)))

\* the numbers a caller pastes into a long text, in the order it may use them
PastedTokens == <<<<"7">>, <<"1", "0", "0", "0">>, <<"7", "a">>>>

\* position of a token among PastedTokens
PastedIndex(tok) == CHOOSE k \in 1..Len(PastedTokens) : PastedTokens[k] = tok

\* the separator put before the n-th pasted token
PastedSeparator(n) == IF n = 1 THEN <<>> ELSE IF n % 2 = 0 THEN <<",">> ELSE <<" ">>

Init ==
    /\ input = <<>>
    /\ result = NoResult
    /\ body = {}
    /\ transform = <<>>
    /\ timers = {}
    /\ age = <<>>
    /\ log = <<>>
    /\ threw = FALSE
    /\ nextId = 1

notifyVars == <<body, transform, timers, age, log, threw, nextId>>

\* the caller types one more character
Type(c) ==
    /\ result = NoResult
    /\ Len(input) < MaxLen
    /\ input' = Append(input, c)
    /\ UNCHANGED <<result, notifyVars>>

\* the caller pastes one more number, after a separator
Paste(k) ==
    /\ result = NoResult
    /\ LET toks == TokensOf(input)
       IN  /\ Len(toks) < MaxTokens
           /\ toks # <<>> => PastedIndex(toks[Len(toks)]) <= k
           /\ input' = input \o PastedSeparator(Len(toks) + 1) \o PastedTokens[k]
    /\ UNCHANGED <<result, notifyVars>>

\* the call validateNumberInput(input)
Validate ==
    /\ result = NoResult
    /\ result' = validateNumberInput(input)
    /\ UNCHANGED <<input, notifyVars>>

\* the caller clears the text and drops the result
Clear ==
    /\ result # NoResult
    /\ input' = <<>>
    /\ result' = NoResult
    /\ UNCHANGED notifyVars

Next ==
    \/ \E c \in Alphabet : Type(c)
    \/ Validate
    \/ Clear

Spec == Init /\ [][Next]_vars

NextPaste ==
    \/ \E k \in 1..Len(PastedTokens) : Paste(k)
    \/ Validate
    \/ Clear

SpecPaste == Init /\ [][NextPaste]_vars

(* ---- showNotification and its timers ---- *)
\* Notifications are numbered in the order of the calls.  body is the set of
\* notification elements that are children of document.body, transform the
\* style.transform of each element, timers the pending setTimeout callbacks
\* with the time left until each is due, age the time since each element was
\* appended (it stops when the element leaves the body), log what was done to
\* each element and at which age, threw whether removeChild has thrown.
\* The class name, text and colours of the element are not modelled.
Hidden == "translateX(100%)"

Shown == "translateX(0)"

\* the granularity of the clock: the shortest delay, which divides the others
TimeStep == SlideInDelay

Timer(n, handler, due) == [id |-> n, handler |-> handler, due |-> due]

Event(name, at) == [event |-> name, at |-> at]

\* the two setTimeout calls with their delays exchanged
ShowTimersSwapped(n) == {Timer(n, "slideIn", SlideOutDelay), Timer(n, "slideOut", SlideInDelay)}

\* the two setTimeout calls of showNotification
ShowTimers(n) == {Timer(n, "slideIn", SlideInDelay), Timer(n, "slideOut", SlideOutDelay)}

\* document.body.appendChild
AppendChild(children, n) == children \cup {n}

\* document.body.removeChild, for a child of the body
RemoveChild(children, n) == children \ {n}

showNotification ==
    /\ nextId <= MaxNotifications
    /\ body' = AppendChild(body, nextId)
    /\ transform' = Append(transform, Hidden)
    /\ timers' = timers \cup ShowTimers(nextId)
    /\ age' = Append(age, 0)
    /\ log' = Append(log, <<Event("appended", 0)>>)
    /\ nextId' = nextId + 1
    /\ UNCHANGED <<input, result, threw>>

\* time passes while no callback is due
Tick ==
    /\ timers # {}
    /\ \A t \in timers : t.due >= TimeStep
    /\ timers' = {Timer(t.id, t.handler, t.due - TimeStep) : t \in timers}
    /\ age' = [n \in DOMAIN age |-> IF n \in body THEN age[n] + TimeStep ELSE age[n]]
    /\ UNCHANGED <<input, result, body, transform, log, threw, nextId>>

\* the callback of setTimeout(..., 100)
SlideIn(t) ==
    /\ t.handler = "slideIn"
    /\ t.due = 0
    /\ transform' = [transform EXCEPT ![t.id] = Shown]
    /\ timers' = timers \ {t}
    /\ log' = [log EXCEPT ![t.id] = Append(@, Event("slidIn", age[t.id]))]
    /\ UNCHANGED <<input, result, body, age, threw, nextId>>

\* the callback of setTimeout(..., 3000)
SlideOut(t) ==
    /\ t.handler = "slideOut"
    /\ t.due = 0
    /\ transform' = [transform EXCEPT ![t.id] = Hidden]
    /\ timers' = (timers \ {t}) \cup {Timer(t.id, "remove", RemoveDelay)}
    /\ log' = [log EXCEPT ![t.id] = Append(@, Event("slidOut", age[t.id]))]
    /\ UNCHANGED <<input, result, body, age, threw, nextId>>

\* the callback of setTimeout(..., 300); removeChild throws for a non-child
Remove(t) ==
    /\ t.handler = "remove"
    /\ t.due = 0
    /\ timers' = timers \ {t}
    /\ IF t.id \in body
       THEN /\ body' = RemoveChild(body, t.id)
            /\ log' = [log EXCEPT ![t.id] = Append(@, Event("removed", age[t.id]))]
            /\ UNCHANGED threw
       ELSE /\ threw' = TRUE
            /\ UNCHANGED <<body, log>>
    /\ UNCHANGED <<input, result, transform, age, nextId>>

Fire == \E t \in timers : SlideIn(t) \/ SlideOut(t) \/ Remove(t)

NextNotify ==
    \/ showNotification
    \/ Tick
    \/ \E t \in timers : SlideIn(t)
    \/ \E t \in timers : SlideOut(t)
    \/ \E t \in timers : Remove(t)

\* the event loop runs every due callback, and time does not stop
SpecNotify == Init /\ [][NextNotify]_vars /\ WF_vars(Tick) /\ WF_vars(Fire)

(* ---- the vocabulary of the claims ---- *)
\* A base-10 integer literal: an optional sign and one or more decimal digits.
Unsigned(tok) == IF tok # <<>> /\ Head(tok) \in {"+", "-"} THEN Tail(tok) ELSE tok

IsDecimalDigit(c) == \E i \in 1..10 : DecDigits[i] = c

IsIntegerLiteral(tok) ==
    /\ Unsigned(tok) # <<>>
    /\ \A i \in 1..Len(Unsigned(tok)) : IsDecimalDigit(Unsigned(tok)[i])

RECURSIVE Magnitude(_)
\* the number a string of decimal digits denotes
Magnitude(d) ==
    IF d = <<>> THEN 0
    ELSE 10 * Magnitude(SubSeq(d, 1, Len(d) - 1))
         + (CHOOSE v \in 0..9 : DecDigits[v + 1] = d[Len(d)])

\* the integer an integer literal denotes
LiteralValue(tok) ==
    IF Head(tok) = "-" THEN 0 - Magnitude(Unsigned(tok)) ELSE Magnitude(Unsigned(tok))

RECURSIVE Significant(_)
\* a digit string without its leading zeros
Significant(d) == IF Len(d) > 1 /\ Head(d) = "0" THEN Significant(Tail(d)) ELSE d

\* how the integer an integer literal denotes is written
LiteralText(tok) ==
    IF LiteralValue(tok) < 0
    THEN <<"-">> \o Significant(Unsigned(tok))
    ELSE Significant(Unsigned(tok))

\* a token that begins like a number: a digit after the optional sign
HasNumericPrefix(tok) == Unsigned(tok) # <<>> /\ IsDecimalDigit(Head(Unsigned(tok)))

InRange(n) == 1 <= n /\ n <= 1000

\* a token that is a number of a NumberList
IsValidNumber(tok) == IsIntegerLiteral(tok) /\ InRange(LiteralValue(tok))

TextNotANumber(tok) == Quote \o tok \o NotANumberSuffix

TextOutOfRange(tok) == LiteralText(tok) \o OutOfRangeSuffix

\* the message an offending token is owed
TextFor(tok) == IF IsIntegerLiteral(tok) THEN TextOutOfRange(tok) ELSE TextNotANumber(tok)

RECURSIVE ExpectedErrors(_)
\* one message for each offending token, in the order of the tokens
ExpectedErrors(toks) ==
    IF toks = <<>> THEN <<>>
    ELSE IF IsValidNumber(Head(toks)) THEN ExpectedErrors(Tail(toks))
    ELSE <<TextFor(Head(toks))>> \o ExpectedErrors(Tail(toks))

StartsWith(s, prefix) == Len(s) >= Len(prefix) /\ SubSeq(s, 1, Len(prefix)) = prefix

RECURSIVE Messages(_)
\* the messages of an error string: its pieces between ", "
Messages(err) ==
    IF \E i \in 1..(Len(err) - 1) : err[i] = "," /\ err[i + 1] = " "
    THEN LET i == CHOOSE k \in 1..(Len(err) - 1) :
                      /\ err[k] = "," /\ err[k + 1] = " "
                      /\ \A j \in 1..(k - 1) : ~(err[j] = "," /\ err[j + 1] = " ")
         IN  <<SubSeq(err, 1, i - 1)>> \o Messages(SubSeq(err, i + 2, Len(err)))
    ELSE <<err>>

Contains(seq, x) == \E i \in 1..Len(seq) : seq[i] = x

Tokens == TokensOf(input)

Values == [i \in 1..Len(Tokens) |-> LiteralValue(Tokens[i])]

AllValid == \A i \in 1..Len(Tokens) : IsValidNumber(Tokens[i])

HasNumbers == Returned /\ result.valid /\ ~result.numbers.isNull

\* the text after the prefix of a success message
ListInMessage(message) ==
    IF StartsWith(message, TooManyPrefix)
    THEN SubSeq(message, Len(TooManyPrefix) + 1, Len(message))
    ELSE SubSeq(message, Len(ValidPrefix) + 1, Len(message))

(* ---- the claims ---- *)
\* C1: every token that is not a base-10 integer literal makes the result
\* invalid, with the message "<token>" is not a number for that token.
C1_NonLiteralRejected ==
    Returned =>
        \A i \in 1..Len(Tokens) :
            ~IsIntegerLiteral(Tokens[i]) =>
                /\ ~result.valid
                /\ Contains(Messages(result.error), TextNotANumber(Tokens[i]))

\* C2: a valid result with a non-null numbers list carries a NumberList:
\* 1 to 25 elements, each in 1..1000.
C2_NumbersIsNumberList ==
    HasNumbers =>
        /\ Len(result.numbers.list) >= 1
        /\ Len(result.numbers.list) <= MaxNumbers
        /\ \A i \in 1..Len(result.numbers.list) : InRange(result.numbers.list[i])

\* C3: if some token is non-numeric or out of range the result is invalid, its
\* error is exactly one message per offending token in token order, and it
\* carries no numbers list.
C3_AllErrorsInOrder ==
    (Returned /\ ExpectedErrors(Tokens) # <<>>) =>
        /\ ~result.valid
        /\ DOMAIN result = {"valid", "error"}
        /\ Messages(result.error) = ExpectedErrors(Tokens)

\* C4: more than 25 tokens, all valid: success with exactly the first 25 values
\* and a truncation notice; 25 or fewer: the whole list and no truncation notice.
C4_TruncatesToFirst25 ==
    (Returned /\ Tokens # <<>> /\ AllValid) =>
        /\ result.valid
        /\ DOMAIN result = {"valid", "numbers", "message"}
        /\ ~result.numbers.isNull
        /\ IF Len(Tokens) > MaxNumbers
           THEN /\ result.numbers.list = SubSeq(Values, 1, MaxNumbers)
                /\ StartsWith(result.message, TooManyPrefix)
           ELSE /\ result.numbers.list = Values
                /\ ~StartsWith(result.message, TooManyPrefix)

C4_Witness ==
    /\ Returned /\ AllValid
    /\ Len(Tokens) > MaxNumbers + 1
    /\ Tokens[MaxNumbers] # Tokens[MaxNumbers + 1]

\* C5: an empty or whitespace-only input gives valid=true, numbers=null and the
\* informational message, and no error field.
C5_EmptyInputIsNull ==
    (Returned /\ \A i \in 1..Len(input) : input[i] \in WhiteSpace) =>
        /\ result.valid
        /\ result.numbers.isNull
        /\ result.message = EmptyMessage
        /\ DOMAIN result = {"valid", "numbers", "message"}

C5_Witness ==
    /\ Returned
    /\ Len(input) >= 2
    /\ \A i \in 1..Len(input) : input[i] \in WhiteSpace
    /\ \E i \in 1..Len(input) : input[i] # " "

\* C6: an integer token is accepted exactly when it is in 1..1000; outside it
\* is rejected with <n> is out of range (1-1000), in the same error list, in
\* token order, as the parse errors.
C6_RangeCheck ==
    Returned =>
        /\ \A i \in 1..Len(Tokens) :
               (IsIntegerLiteral(Tokens[i]) /\ ~InRange(LiteralValue(Tokens[i]))) =>
                   /\ ~result.valid
                   /\ Contains(Messages(result.error), TextOutOfRange(Tokens[i]))
        /\ (Tokens # <<>> /\ AllValid) =>
               /\ result.valid
               /\ result.numbers.list = Values
        /\ HasNumbers =>
               \A i \in 1..Len(Tokens) :
                   IsIntegerLiteral(Tokens[i]) => InRange(LiteralValue(Tokens[i]))
        /\ (/\ \A i \in 1..Len(Tokens) : IsIntegerLiteral(Tokens[i]) \/ ~HasNumericPrefix(Tokens[i])
            /\ ExpectedErrors(Tokens) # <<>>) =>
               /\ ~result.valid
               /\ Messages(result.error) = ExpectedErrors(Tokens)

C6_Witness ==
    /\ Returned
    /\ Len(Tokens) = 2
    /\ ~IsIntegerLiteral(Tokens[1])
    /\ IsIntegerLiteral(Tokens[2]) /\ LiteralValue(Tokens[2]) < 0
    /\ ~result.valid

C8_ErrorsBeforeTruncation ==
    Returned =>
        \A i \in (MaxNumbers + 1)..Len(Tokens) :
            ~IsValidNumber(Tokens[i]) =>
                /\ ~result.valid
                /\ Contains(Messages(result.error), TextFor(Tokens[i]))

\* C9: a returned non-empty numbers list, written as in the result's own
\* message, validates to the same list, without truncation.
C9_Idempotent ==
    (HasNumbers /\ result.numbers.list # <<>>) =>
        LET again == validateNumberInput(ListInMessage(result.message))
        IN  /\ again.valid
            /\ again.numbers = result.numbers
            /\ StartsWith(again.message, ValidPrefix)

C9_Witness ==
    /\ HasNumbers
    /\ StartsWith(result.message, TooManyPrefix)
    /\ result.numbers.list[1] # result.numbers.list[MaxNumbers]

\* the events of one notification, with the age of the element at each
Lifecycle ==
    << Event("appended", 0), Event("slidIn", SlideInDelay),
       Event("slidOut", SlideOutDelay), Event("removed", SlideOutDelay + RemoveDelay) >>

\* C10: every call appends one element; each element is slid in at 100 ms, slid
\* out at 3000 ms and removed 300 ms later, in this order, whatever the other
\* notifications do; it is removed once, by its own timer, and eventually; no
\* timer removes an element that is not in the body.
C10_NotificationLifecycle ==
    /\ [](/\ ~threw
          /\ \A n \in DOMAIN log :
                 /\ StartsWith(Lifecycle, log[n])
                 /\ n \in body <=> log[n][Len(log[n])].event # "removed")
    /\ [][/\ nextId' # nextId =>
                 /\ nextId \notin body
                 /\ body' = body \cup {nextId}
                 /\ nextId' = nextId + 1
          /\ \A n \in body :
                 n \notin body' => Timer(n, "remove", 0) \in (timers \ timers')]_vars
    /\ \A n \in 1..MaxNotifications :
           [](n \in body => <>(n \in DOMAIN log /\ n \notin body /\ log[n] = Lifecycle))

C10_Witness ==
    /\ \E n \in DOMAIN log : log[n] = Lifecycle
    /\ \E n \in body : Len(log[n]) = 2

====
